---- MODULE Spec2Model ----
(***************************************************************************)
(* Model of the NCSC CSAF harvester's notification pipeline:               *)
(*   dedupe.py       the persisted dedupe cache and the advisory key       *)
(*   notify_ncsc.py  main(): CSV -> severity filter -> dedupe -> message   *)
(*                   -> duplicate guard -> Telegram -> mark_sent           *)
(*   scraper.py      the same pipeline behind the CSAF directory fetch     *)
(*                                                                         *)
(* Text is modelled exactly, as Python str values.  A string is a sequence *)
(* of runs [c |-> character, n |-> repeat count], with no empty run and no *)
(* two adjacent runs of the same character, so that equal strings have     *)
(* equal representations and strings of several thousand characters stay   *)
(* small.  A character is a tuple: <<"a">> for the character a, and        *)
(* <<"sha256", s>> for the hex digits of the SHA-256 digest of s (the      *)
(* digest is taken to be collision free).                                  *)
(***************************************************************************)
EXTENDS Integers, Sequences, FiniteSets, TLC

(***************************************************************************)
(* Python str operations                                                   *)
(***************************************************************************)
Empty == <<>>

Run(c, n) == [c |-> c, n |-> n]

\* the string made of n copies of the one-character TLA+ string ch
Rep(ch, n) == IF n = 0 THEN Empty ELSE <<Run(<<ch>>, n)>>

\* a + b
Cat(a, b) ==
    IF a = Empty THEN b
    ELSE IF b = Empty THEN a
    ELSE IF a[Len(a)].c = b[1].c
         THEN SubSeq(a, 1, Len(a) - 1)
              \o <<Run(b[1].c, a[Len(a)].n + b[1].n)>>
              \o SubSeq(b, 2, Len(b))
         ELSE a \o b

RECURSIVE LitFrom(_, _)
LitFrom(s, i) ==
    IF i > Len(s) THEN Empty
    ELSE Cat(<<Run(<<SubSeq(s, i, i)>>, 1)>>, LitFrom(s, i + 1))

\* the str value of a literal
Lit(s) == LitFrom(s, 1)

RECURSIVE LenRange(_, _, _)
\* the number of characters in the runs lo..hi of s
LenRange(s, lo, hi) ==
    IF lo > hi THEN 0
    ELSE IF lo = hi THEN s[lo].n
    ELSE LET mid == (lo + hi) \div 2
         IN  LenRange(s, lo, mid) + LenRange(s, mid + 1, hi)

\* len(s)
StrLen(s) == LenRange(s, 1, Len(s))

RECURSIVE TakeRange(_, _, _, _)
\* the first k characters of the runs lo..hi of s
TakeRange(s, lo, hi, k) ==
    IF k <= 0 \/ lo > hi THEN Empty
    ELSE IF lo = hi THEN <<Run(s[lo].c, IF s[lo].n < k THEN s[lo].n ELSE k)>>
    ELSE LET mid  == (lo + hi) \div 2
             left == LenRange(s, lo, mid)
         IN  IF left >= k THEN TakeRange(s, lo, mid, k)
             ELSE SubSeq(s, lo, mid) \o TakeRange(s, mid + 1, hi, k - left)

\* s[:k]
Take(s, k) == TakeRange(s, 1, Len(s), k)

\* the characters str.strip() removes
Whitespace == {<<" ">>, <<"\n">>, <<"\t">>, <<"\r">>}

RECURSIVE RStrip(_)
\* s.rstrip()
RStrip(s) ==
    IF s = Empty THEN Empty
    ELSE IF s[Len(s)].c \in Whitespace THEN RStrip(SubSeq(s, 1, Len(s) - 1))
    ELSE s

RECURSIVE LStrip(_)
\* s.lstrip()
LStrip(s) ==
    IF s = Empty THEN Empty
    ELSE IF s[1].c \in Whitespace THEN LStrip(Tail(s))
    ELSE s

\* s.strip()
Strip(s) == LStrip(RStrip(s))

RECURSIVE Expand(_)
\* the characters of s, one by one
Expand(s) ==
    IF s = Empty THEN <<>>
    ELSE [i \in 1..s[1].n |-> s[1].c] \o Expand(Tail(s))

\* the last character of a non-empty s
LastChar(s) == s[Len(s)].c

RECURSIVE JoinFrom(_, _, _)
JoinFrom(sep, parts, i) ==
    IF i > Len(parts) THEN Empty
    ELSE IF i = Len(parts) THEN parts[i]
    ELSE Cat(Cat(parts[i], sep), JoinFrom(sep, parts, i + 1))

\* sep.join(parts)
Join(sep, parts) == JoinFrom(sep, parts, 1)

(***************************************************************************)
(* Input rows: csv.DictReader rows, a string per column.  A column the CSV *)
(* does not have reads as the empty string in every use the code makes of  *)
(* it (row.get(k) or "", field in row and row[field], row.get(k, "")).     *)
(***************************************************************************)
Fields == {"AdvisoryID", "TrackingID", "ID", "CsafID", "Tracking.Id", "tracking.id",
           "Description", "Title", "Naam", "Name", "Vendor", "Product", "CVE", "URL",
           "Severity", "Link", "AdvisoryURL", "Version"}

Row(cols) == [f \in Fields |-> IF f \in DOMAIN cols THEN cols[f] ELSE Empty]

\* the retention window of the cache, in days
CACHE_TTL_DAYS == 30

\* the characters of the description kept in a bullet
DescLimit == 300

\* the cap on the composed message
MessageLimit == 3900

\* length of the long description of Scenario A
LongDescLen == 400

\* length of a link that by itself exceeds the message cap
LongLinkLen == 4000

Catalog == <<
    \* 1: Scenario A
    Row([AdvisoryID |-> Lit("NCSC-2025-0101"), Severity |-> Lit("[H/H]"),
         Description |-> Rep("d", LongDescLen), Link |-> Lit("https://e/1")]),
    \* 2: a tracking column holding only whitespace
    Row([AdvisoryID |-> Lit("  "), Severity |-> Lit("H/H"),
         Description |-> Lit("blank id"), Link |-> Lit("https://e/2")]),
    \* 3: a bullet longer than the message cap
    Row([AdvisoryID |-> Lit("NCSC-2025-0103"), Severity |-> Lit("M/H"),
         Description |-> Lit("big"), Link |-> Cat(Lit("https://e/"), Rep("3", LongLinkLen))]),
    \* 4: not high-risk
    Row([AdvisoryID |-> Lit("NCSC-2025-0104"), Severity |-> Lit("L/L"),
         Description |-> Lit("low"), Link |-> Lit("https://e/4")]),
    \* 5: no description, no link
    Row([AdvisoryID |-> Lit(" NCSC-2025-0105 "), Severity |-> Lit("High/Med")]),
    \* 6: identifier embedded in the description
    Row([Description |-> Lit("see ncsc-2024-0007 now"), Severity |-> Lit("[m/h]"),
         URL |-> Lit("https://e/6")]),
    \* 7: no identifier at all
    Row([Title |-> Lit("t7"), Severity |-> Lit("Med/High")]),
    \* 8: nothing but a severity
    Row([Severity |-> Lit("H/H")]),
    \* 9: as 7 but for its Description
    Row([Title |-> Lit("t7"), Description |-> Lit("d9"), Severity |-> Lit("Med/High")]),
    \* 10: as 7 but for its Description, which is whitespace
    Row([Title |-> Lit("t7"), Description |-> Lit("  "), Severity |-> Lit("Med/High")]),
    \* 11: the six signature fields of 7, other columns differing
    Row([Title |-> Lit("t7"), Severity |-> Lit("High/High"), Link |-> Lit("https://e/11")]),
    \* 12: a whitespace-only tracking column before a filled one, and a
    \* description exactly as long as the limit
    Row([AdvisoryID |-> Lit("  "), TrackingID |-> Lit(" T-12 "), Severity |-> Lit("H/H"),
         Description |-> Rep("e", DescLimit)]),
    \* 13: the tracking identifier of 3 once more
    Row([AdvisoryID |-> Lit("NCSC-2025-0103"), Severity |-> Lit("H/H"),
         Description |-> Lit("dup"), Title |-> Lit("t13")]) >>

RowIds == 1..Len(Catalog)

(***************************************************************************)
(* Regular expressions                                                     *)
(***************************************************************************)
LowerCase == "abcdefghijklmnopqrstuvwxyz"
UpperCase == "ABCDEFGHIJKLMNOPQRSTUVWXYZ"
Digits == {<<"0">>, <<"1">>, <<"2">>, <<"3">>, <<"4">>, <<"5">>, <<"6">>, <<"7">>, <<"8">>, <<"9">>}

\* c.upper() and c.lower() of one character
Upper(c) ==
    IF \E i \in 1..Len(LowerCase) : c = <<SubSeq(LowerCase, i, i)>>
    THEN <<SubSeq(UpperCase, (CHOOSE i \in 1..Len(LowerCase) : c = <<SubSeq(LowerCase, i, i)>>),
                  (CHOOSE i \in 1..Len(LowerCase) : c = <<SubSeq(LowerCase, i, i)>>))>>
    ELSE c

Lower(c) ==
    IF \E i \in 1..Len(UpperCase) : c = <<SubSeq(UpperCase, i, i)>>
    THEN <<SubSeq(LowerCase, (CHOOSE i \in 1..Len(UpperCase) : c = <<SubSeq(UpperCase, i, i)>>),
                  (CHOOSE i \in 1..Len(UpperCase) : c = <<SubSeq(UpperCase, i, i)>>))>>
    ELSE c

RECURSIVE Compress(_)
\* the str made of the characters e
Compress(e) ==
    IF e = <<>> THEN Empty ELSE Cat(<<Run(e[1], 1)>>, Compress(Tail(e)))

\* whether the literal pattern p occurs in the characters e at position i, ignoring case
LitAt(e, i, p) ==
    /\ i + Len(p) - 1 <= Len(e)
    /\ \A j \in 1..Len(p) : Lower(e[i + j - 1]) = Lower(<<SubSeq(p, j, j)>>)

\* re.search of a literal, re.IGNORECASE
SearchLit(s, p) == LET e == Expand(s) IN \E i \in 1..Len(e) : LitAt(e, i, p)

\* SEV_RE.search(s): the optional brackets do not change whether there is a match
SEV_RE(s) ==
    \/ SearchLit(s, "H/H") \/ SearchLit(s, "M/H") \/ SearchLit(s, "H/M")
    \/ SearchLit(s, "High/High") \/ SearchLit(s, "Med/High") \/ SearchLit(s, "High/Med")

\* ID_RE of dedupe.py matches the characters e at position i: NCSC-\d{4}-\d{4}
IdAt(e, i) ==
    /\ i + 13 <= Len(e)
    /\ LitAt(e, i, "NCSC-")
    /\ \A j \in 5..8 : e[i + j] \in Digits
    /\ e[i + 9] = <<"-">>
    /\ \A j \in 10..13 : e[i + j] \in Digits

\* ID_RE.search(s) is not None
ID_RE_Found(s) == LET e == Expand(s) IN \E i \in 1..Len(e) : IdAt(e, i)

\* ID_RE.search(s).group(1).upper(), the leftmost match
ID_RE_Group(s) ==
    LET e == Expand(s)
        i == CHOOSE k \in 1..Len(e) : IdAt(e, k) /\ \A m \in 1..(k - 1) : ~IdAt(e, m)
    IN  Compress([j \in 1..14 |-> Upper(e[i + j - 1])])

(***************************************************************************)
(* dedupe.py: the advisory key                                             *)
(***************************************************************************)
\* Python's None
None == <<[none |-> TRUE]>>

\* hashlib.sha256(s.encode("utf-8")).hexdigest()
Sha256Hex(s) == <<Run(<<"sha256", s>>, 64)>>

DirectFields == <<"AdvisoryID", "TrackingID", "ID", "CsafID", "Tracking.Id", "tracking.id">>
PatternFields == <<"Description", "Title", "Naam", "Name">>
\* the signature without the description
SignatureFields_no_description == <<"Title", "Vendor", "Product", "CVE", "URL">>

SignatureFields == <<"Title", "Description", "Vendor", "Product", "CVE", "URL">>

advisory_key(row) ==
    IF \E i \in 1..Len(DirectFields) : row[DirectFields[i]] # Empty
    THEN LET i == CHOOSE k \in 1..Len(DirectFields) :
                      /\ row[DirectFields[k]] # Empty
                      /\ \A m \in 1..(k - 1) : row[DirectFields[m]] = Empty
         IN  Strip(row[DirectFields[i]])
    ELSE IF \E i \in 1..Len(PatternFields) : ID_RE_Found(row[PatternFields[i]])
    THEN LET i == CHOOSE k \in 1..Len(PatternFields) :
                      /\ ID_RE_Found(row[PatternFields[k]])
                      /\ \A m \in 1..(k - 1) : ~ID_RE_Found(row[PatternFields[m]])
         IN  ID_RE_Group(row[PatternFields[i]])
    ELSE LET sig == Join(Lit("|"), [i \in 1..Len(SignatureFields) |-> Strip(row[SignatureFields[i]])])
         IN  IF sig = Empty THEN None
             ELSE Cat(Lit("HASH:"), Take(Sha256Hex(sig), 16))

\* not key
Falsy(key) == key = None \/ key = Empty

(***************************************************************************)
(* notify_ncsc.py / scraper.py: severity filter and message                *)
(***************************************************************************)
RECURSIVE filter_high_risk(_)
\* the rows, given by their place in the catalog, whose Severity matches SEV_RE
filter_high_risk(rows) ==
    IF rows = <<>> THEN <<>>
    ELSE IF SEV_RE(Strip(Catalog[rows[1]]["Severity"]))
         THEN <<rows[1]>> \o filter_high_risk(Tail(rows))
         ELSE filter_high_risk(Tail(rows))

\* x or y
Or(a, b) == IF a # Empty THEN a ELSE b

header == Cat(Cat(Rep("SIREN", 1), Rep("ANGRY", 1)), Lit(" <b>URGENT</b>\n\nDetails:\n"))

\* the column(s) the link of a bullet is taken from
LinkOf(p, row) ==
    IF p = "notify" THEN Or(row["Link"], Or(row["AdvisoryURL"], row["URL"]))
    ELSE row["Link"]

\* the description of a bullet, never shortened
DescOf_no_limit(row) == Or(row["Description"], Lit("Onbekende melding"))

\* the description of a bullet
DescOf(row) ==
    LET desc == Or(row["Description"], Lit("Onbekende melding"))
    IN  IF StrLen(desc) > DescLimit
        THEN Cat(RStrip(Take(desc, DescLimit)), Rep("ELLIPSIS", 1))
        ELSE desc

\* one bullet of the message
LineOf(p, row) ==
    LET sev  == Or(row["Severity"], Lit("?"))
        url  == LinkOf(p, row)
        line == Cat(Cat(Cat(Cat(Rep("BULLET", 1), Lit(" <b>[")), sev),
                        Cat(Cat(Lit("]</b> "), Rep("EMDASH", 1)), Lit(" "))), DescOf(row))
    IN  IF url # Empty
        THEN Cat(line, Cat(Cat(Cat(Lit("\n  "), Rep("LINK", 1)), Lit(" <a href='")),
                           Cat(url, Lit("'>Bekijk advisory</a>"))))
        ELSE line

\* the message before the cap
ComposedText(p, rows) ==
    Cat(header, Join(Lit("\n"), [i \in 1..Len(rows) |-> LineOf(p, Catalog[rows[i]])]))

build_urgent_message(p, rows) == Take(ComposedText(p, rows), MessageLimit)

(***************************************************************************)
(* dedupe.py: the persisted cache, output/sent_cache.json                  *)
(*                                                                         *)
(* kind is what the file holds: "absent" (no file), "garbage" (not JSON),  *)
(* "notdict" (JSON, but a list, string, number or null) or "dict" (a JSON  *)
(* object).  Of an object, has_ids tells whether it has an advisory_ids    *)
(* member, ids is that member (key -> timestamp) and hash is               *)
(* last_message_hash (None when null or missing).                          *)
(***************************************************************************)
Day == 86400

NoIds == [k \in {} |-> 0]

CacheFile(kind, has_ids, ids, hash) ==
    [kind |-> kind, has_ids |-> has_ids, ids |-> ids, hash |-> hash]

\* the value load_cache() returns when there is nothing to read
FreshCache == CacheFile("dict", TRUE, NoIds, None)

load_cache(f) == IF f.kind \in {"absent", "garbage"} THEN FreshCache ELSE f

\* cache.get("advisory_ids", {})
GetIds(cache) == IF cache.has_ids THEN cache.ids ELSE NoIds

\* save_cache writing every entry, whatever its age
save_cache_keep_all(cache, t) == CacheFile("dict", TRUE, GetIds(cache), cache.hash)

\* save_cache(cache) at time t: the file it writes
save_cache(cache, t) ==
    LET cutoff == t - CACHE_TTL_DAYS * Day
        ids    == GetIds(cache)
        kept   == {k \in DOMAIN ids : ids[k] >= cutoff}
    IN  CacheFile("dict", TRUE, [k \in kept |-> ids[k]], cache.hash)

\* advisory_key of every row of the catalog
KeyOf == [r \in RowIds |-> advisory_key(Catalog[r])]

Key(r) == KeyOf[r]

\* whether ID_RE finds a vendor ID in one of the text columns of the row
EmbeddedId == [r \in RowIds |->
                  \E i \in 1..Len(PatternFields) : ID_RE_Found(Catalog[r][PatternFields[i]])]

RECURSIVE FilterLoop(_, _)
\* the loop of filter_new_advisories over the rows, given the seen keys
FilterLoop(rows, seen) ==
    IF rows = <<>> THEN [new_rows |-> <<>>, used_ids |-> <<>>]
    ELSE LET key  == Key(rows[1])
             rest == FilterLoop(Tail(rows), seen)
         IN  IF Falsy(key)
             THEN [new_rows |-> <<rows[1]>> \o rest.new_rows, used_ids |-> rest.used_ids]
             ELSE [new_rows |-> IF key \notin DOMAIN seen
                                THEN <<rows[1]>> \o rest.new_rows ELSE rest.new_rows,
                   used_ids |-> <<key>> \o rest.used_ids]

\* filter_new_advisories returning one row only for each key of the batch
filter_new_advisories_unique(f, rows) ==
    LET cache == load_cache(f)
        res   == FilterLoop(rows, GetIds(cache))
        keyOf(i) == Key(res.new_rows[i])
        keep  == {i \in 1..Len(res.new_rows) :
                      Falsy(keyOf(i)) \/ \A j \in 1..(i - 1) : keyOf(j) # keyOf(i)}
    IN  IF cache.kind # "dict"
        THEN [raised |-> TRUE, new_rows |-> <<>>, used_ids |-> <<>>]
        ELSE [raised |-> FALSE,
              new_rows |-> [n \in 1..Cardinality(keep) |->
                               res.new_rows[CHOOSE i \in keep :
                                                Cardinality({k \in keep : k <= i}) = n]],
              used_ids |-> res.used_ids]

\* filter_new_advisories looking for the entries under a key the cache does
\* not have
filter_new_advisories_no_entries(f, rows) ==
    LET cache == load_cache(f)
    IN  IF cache.kind # "dict"
        THEN [raised |-> TRUE, new_rows |-> <<>>, used_ids |-> <<>>]
        ELSE [raised |-> FALSE] @@ FilterLoop(rows, NoIds)

\* filter_new_advisories(rows) with the file f: raised tells that it raised
\* (cache.get on a value that is not a dict)
filter_new_advisories(f, rows) ==
    LET cache == load_cache(f)
    IN  IF cache.kind # "dict"
        THEN [raised |-> TRUE, new_rows |-> <<>>, used_ids |-> <<>>]
        ELSE [raised |-> FALSE] @@ FilterLoop(rows, GetIds(cache))

\* is_same_message comparing the stored digest with the text itself
is_same_message_raw_text(f, text) ==
    LET cache == load_cache(f)
    IN  IF cache.kind # "dict" THEN [raised |-> TRUE, same |-> FALSE]
        ELSE [raised |-> FALSE, same |-> cache.hash = text]

\* is_same_message(message_text) with the file f
is_same_message(f, text) ==
    LET cache == load_cache(f)
    IN  IF cache.kind # "dict" THEN [raised |-> TRUE, same |-> FALSE]
        ELSE [raised |-> FALSE, same |-> cache.hash = Sha256Hex(text)]

\* the loop of mark_sent leaving the entries that exist as they are
Stamp_only_absent(ids, used_ids, ts) ==
    LET keys == {used_ids[i] : i \in 1..Len(used_ids)} \ {Empty, None}
    IN  [k \in DOMAIN ids \cup keys |-> IF k \in DOMAIN ids THEN ids[k] ELSE ts]

\* the entries after the loop of mark_sent stamped the truthy keys with ts
Stamp(ids, used_ids, ts) ==
    LET keys == {used_ids[i] : i \in 1..Len(used_ids)} \ {Empty, None}
    IN  [k \in DOMAIN ids \cup keys |-> IF k \in keys THEN ts ELSE ids[k]]

\* mark_sent leaving last_message_hash as it found it
mark_sent_keep_hash(f, used_ids, text, t) ==
    LET cache == load_cache(f)
    IN  IF cache.kind # "dict" THEN [raised |-> TRUE, file |-> f]
        ELSE [raised |-> FALSE,
              file   |-> save_cache(CacheFile("dict", TRUE, Stamp(GetIds(cache), used_ids, t),
                                              cache.hash), t)]

\* mark_sent(used_ids, message_text) with the file f at time t: raised tells
\* that it raised before writing (item assignment on a value that is not a dict)
mark_sent(f, used_ids, text, t) ==
    LET cache == load_cache(f)
    IN  IF cache.kind # "dict" THEN [raised |-> TRUE, file |-> f]
        ELSE [raised |-> FALSE,
              file   |-> save_cache(CacheFile("dict", TRUE, Stamp(GetIds(cache), used_ids, t),
                                              Sha256Hex(text)), t)]

(***************************************************************************)
(* The pipeline: main() of notify_ncsc.py ("notify") and of scraper.py     *)
(* ("scraper"), run again and again by an external scheduler               *)
(***************************************************************************)
\* the number of runs explored
MaxRuns == 3

\* the time of the first run
StartTime == 2 * CACHE_TTL_DAYS * Day

\* the time between two runs: an entry stamped by the one is still within
\* the retention window at the other, or just outside of it
Intervals == {CACHE_TTL_DAYS * Day, CACHE_TTL_DAYS * Day + 1}

\* the feed snapshots explored, each a sequence of rows of the catalog
Inputs == {<<>>, <<4>>, <<1>>, <<2>>, <<1, 2>>, <<5, 1>>, <<3, 5>>, <<6, 7>>,
           <<8, 12>>, <<7, 9, 10, 11>>, <<3, 13>>}

\* a row that fetch_ncsc_to_csv of scraper.py can have written: the five
\* columns of its CSV, with an AdvisoryID, a Description and a Link
Fetched(r) ==
    /\ \A f \in Fields \ {"AdvisoryID", "Version", "Severity", "Description", "Link"} :
           Catalog[r][f] = Empty
    /\ Catalog[r]["AdvisoryID"] # Empty
    /\ Catalog[r]["Description"] # Empty
    /\ Catalog[r]["Link"] # Empty

\* filter_high_risk of every feed explored
HighRiskOf == [input \in Inputs |-> filter_high_risk(input)]

RECURSIVE SubSeqs(_)
\* the rows of a list with some of them left out, in their order
SubSeqs(rows) ==
    IF rows = <<>> THEN {<<>>}
    ELSE LET rest == SubSeqs(Tail(rows))
         IN  rest \cup {<<rows[1]>> \o t : t \in rest}

\* the lists of new rows a run can have
Batches == UNION {SubSeqs(HighRiskOf[input]) : input \in Inputs}

\* the text of every list of new rows before the cap, and its length
TextOf == [p \in {"notify", "scraper"} |-> [rows \in Batches |-> ComposedText(p, rows)]]

LenOf == [p \in {"notify", "scraper"} |-> [rows \in Batches |-> StrLen(TextOf[p][rows])]]

\* build_urgent_message of every list of new rows
MessageOf == [p \in {"notify", "scraper"} |->
                 [rows \in Batches |-> build_urgent_message(p, rows)]]

\* the persisted cache before the first run
InitFiles ==
    { CacheFile("absent", FALSE, NoIds, None),
      CacheFile("garbage", FALSE, NoIds, None),
      CacheFile("notdict", FALSE, NoIds, None),
      CacheFile("dict", FALSE, NoIds, None),
      \* as written by a run over <<5>> that is now just outside the retention window
      CacheFile("dict", TRUE, (Key(5) :> StartTime - CACHE_TTL_DAYS * Day - 1),
                Sha256Hex(build_urgent_message("notify", <<5>>))) }

\* what requests.post can do once the credentials are set, and the case
\* that they are not
Outcomes == {"unconfigured", "200", "status", "exception"}

\* one load_cache() for the run, made by the filter and its result handed on
CacheLoads_once(step, no_dedupe) == IF step = "filter" /\ ~no_dedupe THEN 1 ELSE 0

\* the load_cache() calls a step of main() makes: filter_new_advisories,
\* is_same_message and mark_sent each begin with one, and main() skips the
\* first two when the bypass is on
CacheLoads(step, no_dedupe) == IF step \in {"filter", "guard"} /\ no_dedupe THEN 0 ELSE 1

\* the defaults of max_retries and retry_backoff_seconds
DefaultMaxRetries == 3
DefaultBackoff == 2

\* the previous run over the same feed snapshot
NoPrev == [exit |-> "none", outcome |-> "none", rows_to_send |-> <<>>, commits |-> 0]

VARIABLES
    file,          \* output/sent_cache.json
    feed,          \* the rows of the latest CSV / of the CSAF directory
    now,           \* time.time()
    prog,          \* the program the scheduler runs: "notify" or "scraper"
    NO_DEDUPE,     \* the environment switch NO_DEDUPE=1
    pc,            \* where main() is
    high_risk, rows_to_send, used_ids, message_text,   \* locals of main()
    posts,         \* requests.post calls of this run
    outcome,       \* what the dispatch of this run met, "none" before it
    writes,        \* writes of the cache file by this run
    exit,          \* how the last run ended
    file0,         \* the cache file as it was when this run started
    prev,          \* how the previous run over this feed snapshot ended
    runs,          \* runs started
    loads,         \* load_cache() calls of this run
    \* notifiers/teams.py, one call of send_to_teams
    ENABLE_TEAMS,            \* the environment switch is on
    TEAMS_WEBHOOK_URL,       \* the environment holds a webhook URL
    max_retries, retry_backoff_seconds,   \* arguments of the call
    teams_pc,      \* where send_to_teams is
    attempt,       \* its loop variable
    answers,       \* what each requests.post of the call met
    sleeps,        \* the arguments of its time.sleep calls
    \* two processes running main() against one cache file
    proc,          \* of each process: where it is, its locals and those of mark_sent
    trace,         \* the filters, and the loads and saves of mark_sent, in their order
    ticks          \* the times the clock went on while the processes ran

vars == <<file, feed, now, prog, NO_DEDUPE, pc, high_risk, rows_to_send, used_ids,
          message_text, posts, outcome, writes, exit, file0, prev, runs, loads,
          ENABLE_TEAMS, TEAMS_WEBHOOK_URL, max_retries, retry_backoff_seconds,
          teams_pc, attempt, answers, sleeps, proc, trace, ticks>>

teams == <<ENABLE_TEAMS, TEAMS_WEBHOOK_URL, max_retries, retry_backoff_seconds,
           teams_pc, attempt, answers, sleeps>>

\* send_to_teams is not called: no main() of the repository calls it
TeamsParked ==
    /\ ENABLE_TEAMS = TRUE /\ TEAMS_WEBHOOK_URL = FALSE
    /\ max_retries = DefaultMaxRetries /\ retry_backoff_seconds = DefaultBackoff
    /\ teams_pc = "idle" /\ attempt = 0 /\ answers = <<>> /\ sleeps = <<>>

locals == <<high_risk, rows_to_send, used_ids, message_text>>

overlap == <<proc, trace, ticks>>

\* the processes that run at the same time
Procs == {"A", "B"}

\* a process that has not started
NoProc == [pc |-> "idle", exit |-> "none", high_risk |-> <<>>, rows_to_send |-> <<>>,
           used_ids |-> <<>>, message_text |-> Empty, cache |-> FreshCache, ts |-> 0,
           saved |-> 0]

\* the scheduler starts one process at a time: no two at the same time
OverlapParked == proc = [r \in Procs |-> NoProc] /\ trace = <<>> /\ ticks = 0

Init ==
    /\ file \in InitFiles
    /\ feed \in Inputs
    /\ now = StartTime
    /\ prog \in {"notify", "scraper"}
    /\ NO_DEDUPE \in BOOLEAN
    /\ pc = "idle"
    /\ high_risk = <<>> /\ rows_to_send = <<>> /\ used_ids = <<>> /\ message_text = Empty
    /\ posts = 0
    /\ outcome = "none"
    /\ writes = 0
    /\ exit = "none"
    /\ file0 = file
    /\ prev = NoPrev
    /\ runs = 0
    /\ loads = 0
    /\ TeamsParked
    /\ OverlapParked

\* main() returns (or an exception leaves it) with the given exit
Finish(how) == pc' = "done" /\ exit' = how

\* the exits on which the process ends with an uncaught exception
Raised == {"raised_filter", "raised_guard", "raised_send", "raised_commit"}

\* a new daily CSV is harvested / the CSAF directory changes
Publish ==
    /\ pc = "idle"
    /\ \E input \in Inputs : input # feed /\ feed' = input
    /\ prev' = NoPrev
    /\ UNCHANGED <<file, now, prog, NO_DEDUPE, pc, locals, posts, outcome, writes, exit, file0, runs, loads, teams, overlap>>

\* main() up to the severity filter
StartRun ==
    /\ pc = "idle"
    /\ runs < MaxRuns
    /\ prog = "scraper" => \A i \in 1..Len(feed) : Fetched(feed[i])
    /\ runs' = runs + 1
    /\ file0' = file
    /\ posts' = 0
    /\ outcome' = "none"
    /\ writes' = 0
    /\ rows_to_send' = <<>> /\ used_ids' = <<>> /\ message_text' = Empty
    /\ IF feed = <<>>
       THEN \* no CSV at all, an empty CSV, nothing fetched
            high_risk' = <<>> /\ Finish("no_input")
       ELSE /\ high_risk' = HighRiskOf[feed]
            /\ IF high_risk' = <<>> THEN Finish("no_high_risk")
               ELSE pc' = "classified" /\ exit' = "running"
    /\ loads' = 0
    /\ UNCHANGED <<file, feed, now, prog, NO_DEDUPE, prev, teams, overlap>>

\* the dedupe step with the retention window applied to the cache as it is
\* read, not only as it is saved
Dedupe_expiring ==
    /\ pc = "classified"
    /\ LET read == IF load_cache(file).kind = "dict" THEN save_cache(load_cache(file), now)
                   ELSE file
           res  == IF NO_DEDUPE
                   THEN [raised |-> FALSE, new_rows |-> high_risk, used_ids |-> <<>>]
                   ELSE filter_new_advisories(read, high_risk)
       IN  /\ rows_to_send' = res.new_rows
           /\ used_ids' = res.used_ids
           /\ IF res.raised THEN message_text' = Empty /\ Finish("raised_filter")
              ELSE IF res.new_rows = <<>> THEN message_text' = Empty /\ Finish("no_new")
              ELSE /\ message_text' = MessageOf[prog][res.new_rows]
                   /\ pc' = "composed" /\ exit' = exit
    /\ loads' = loads + CacheLoads("filter", NO_DEDUPE)
    /\ UNCHANGED <<file, feed, now, prog, NO_DEDUPE, high_risk, posts, outcome, writes, file0, prev, runs, teams, overlap>>

\* main(): the dedupe step and the composition of the message
Dedupe ==
    /\ pc = "classified"
    /\ LET res == IF NO_DEDUPE
                  THEN [raised |-> FALSE, new_rows |-> high_risk, used_ids |-> <<>>]
                  ELSE filter_new_advisories(file, high_risk)
       IN  /\ rows_to_send' = res.new_rows
           /\ used_ids' = res.used_ids
           /\ IF res.raised THEN message_text' = Empty /\ Finish("raised_filter")
              ELSE IF res.new_rows = <<>> THEN message_text' = Empty /\ Finish("no_new")
              ELSE /\ message_text' = MessageOf[prog][res.new_rows]
                   /\ pc' = "composed" /\ exit' = exit
    /\ loads' = loads + CacheLoads("filter", NO_DEDUPE)
    /\ UNCHANGED <<file, feed, now, prog, NO_DEDUPE, high_risk, posts, outcome, writes, file0, prev, runs, teams, overlap>>

\* main(): the duplicate-message guard
Guard ==
    /\ pc = "composed"
    /\ IF NO_DEDUPE THEN pc' = "dispatch" /\ exit' = exit
       ELSE LET res == is_same_message(file, message_text)
            IN  IF res.raised THEN Finish("raised_guard")
                ELSE IF res.same THEN Finish("same_message")
                ELSE pc' = "dispatch" /\ exit' = exit
    /\ loads' = loads + CacheLoads("guard", NO_DEDUPE)
    /\ UNCHANGED <<file, feed, now, prog, NO_DEDUPE, locals, posts, outcome, writes, file0, prev, runs, teams, overlap>>

\* send_to_telegram taking any answer of the server for a success
send_to_telegram_any_status(p, o) ==
    IF o = "unconfigured" THEN [raised |-> FALSE, ok |-> FALSE, posts |-> 0]
    ELSE IF o \in {"200", "status"} THEN [raised |-> FALSE, ok |-> TRUE, posts |-> 1]
    ELSE IF p = "scraper" THEN [raised |-> FALSE, ok |-> FALSE, posts |-> 1]
    ELSE [raised |-> TRUE, ok |-> FALSE, posts |-> 1]

\* send_to_telegram posting once more after an answer other than 200
send_to_telegram_resend(p, o) ==
    IF o = "unconfigured" THEN [raised |-> FALSE, ok |-> FALSE, posts |-> 0]
    ELSE IF o = "200" THEN [raised |-> FALSE, ok |-> TRUE, posts |-> 1]
    ELSE IF o = "status" THEN [raised |-> FALSE, ok |-> FALSE, posts |-> 2]
    ELSE IF p = "scraper" THEN [raised |-> FALSE, ok |-> FALSE, posts |-> 1]
    ELSE [raised |-> TRUE, ok |-> FALSE, posts |-> 1]

\* send_to_telegram posting without looking at the credentials
send_to_telegram_no_check(p, o) ==
    IF o = "200" THEN [raised |-> FALSE, ok |-> TRUE, posts |-> 1]
    ELSE IF o \in {"status", "unconfigured"} THEN [raised |-> FALSE, ok |-> FALSE, posts |-> 1]
    ELSE IF p = "scraper" THEN [raised |-> FALSE, ok |-> FALSE, posts |-> 1]
    ELSE [raised |-> TRUE, ok |-> FALSE, posts |-> 1]

\* send_to_telegram(text) of program p when requests.post does what o says: the value returned, or that the exception left the function
send_to_telegram(p, o) ==
    IF o = "unconfigured" THEN [raised |-> FALSE, ok |-> FALSE, posts |-> 0]
    ELSE IF o = "200" THEN [raised |-> FALSE, ok |-> TRUE, posts |-> 1]
    ELSE IF o = "status" THEN [raised |-> FALSE, ok |-> FALSE, posts |-> 1]
    ELSE IF p = "scraper" THEN [raised |-> FALSE, ok |-> FALSE, posts |-> 1]
    ELSE [raised |-> TRUE, ok |-> FALSE, posts |-> 1]

\* main() calling mark_sent whatever send_to_telegram returned
CallsMarkSent_always(p, no_dedupe, ok) == TRUE

\* whether main() of program p calls mark_sent after send_to_telegram returned ok
CallsMarkSent(p, no_dedupe, ok) == IF p = "notify" THEN ok ELSE ok /\ ~no_dedupe

\* main(): send_to_telegram(message_text) and the branch on its result
Dispatch ==
    /\ pc = "dispatch"
    /\ \E o \in Outcomes :
         LET res == send_to_telegram(prog, o)
         IN  /\ posts' = posts + res.posts
             /\ outcome' = o
             /\ IF res.raised THEN Finish("raised_send")
                ELSE IF CallsMarkSent(prog, NO_DEDUPE, res.ok) THEN pc' = "sent" /\ exit' = exit
                ELSE IF res.ok THEN Finish("delivered")
                ELSE Finish("failed")
    /\ UNCHANGED <<file, feed, now, prog, NO_DEDUPE, locals, writes, file0, prev, runs, loads, teams, overlap>>

\* main(): mark_sent(used_ids, message_text)
Commit ==
    /\ pc = "sent"
    /\ LET res == mark_sent(file, used_ids, message_text, now)
       IN  /\ file' = res.file
           /\ writes' = IF res.raised THEN writes ELSE writes + 1
           /\ IF res.raised THEN Finish("raised_commit") ELSE Finish("committed")
    /\ loads' = loads + CacheLoads("commit", NO_DEDUPE)
    /\ UNCHANGED <<feed, now, prog, NO_DEDUPE, locals, posts, outcome, file0, prev, runs, teams, overlap>>

\* the process has ended and its locals are gone; the scheduler waits for
\* the next run
EndRun ==
    /\ pc = "done"
    /\ pc' = "idle"
    /\ prev' = [exit |-> exit, outcome |-> outcome, rows_to_send |-> rows_to_send,
                 commits |-> prev.commits + (IF exit = "committed" THEN 1 ELSE 0)]
    /\ \E d \in Intervals : now' = now + d
    /\ high_risk' = <<>> /\ rows_to_send' = <<>> /\ used_ids' = <<>> /\ message_text' = Empty
    /\ posts' = 0
    /\ outcome' = "none"
    /\ writes' = 0
    /\ exit' = "none"
    /\ file0' = file
    /\ loads' = 0
    /\ UNCHANGED <<file, feed, prog, NO_DEDUPE, runs, teams, overlap>>

Next == Publish \/ StartRun \/ Dedupe \/ Guard \/ Dispatch \/ Commit \/ EndRun

Spec == Init /\ [][Next]_vars

TypeOK ==
    /\ pc \in {"idle", "classified", "composed", "dispatch", "sent", "done"}
    /\ runs \in 0..MaxRuns
    /\ posts \in 0..1
    /\ writes \in 0..1
    /\ loads \in 0..3
    /\ outcome \in Outcomes \cup {"none"}

(***************************************************************************)
(* notifiers/teams.py: one call of send_to_teams                           *)
(***************************************************************************)
\* the largest max_retries and retry_backoff_seconds a call is explored with
MaxRetriesTried == 4
MaxBackoffTried == 3

\* what a requests.post of send_to_teams can meet: status 200, another
\* status, an exception
TeamsAnswers == {"200", "status", "exception"}

pipeline == <<file, feed, now, prog, NO_DEDUPE, pc, high_risk, rows_to_send, used_ids,
              message_text, posts, outcome, writes, exit, file0, prev, runs, loads>>

\* no run of a main() while send_to_teams is looked at
PipelineParked ==
    /\ file = CacheFile("absent", FALSE, NoIds, None) /\ file0 = file
    /\ feed = <<>> /\ now = StartTime /\ prog = "notify" /\ NO_DEDUPE = FALSE
    /\ pc = "idle"
    /\ high_risk = <<>> /\ rows_to_send = <<>> /\ used_ids = <<>> /\ message_text = Empty
    /\ posts = 0 /\ outcome = "none" /\ writes = 0 /\ exit = "none"
    /\ prev = NoPrev /\ runs = 0 /\ loads = 0

TeamsInit ==
    /\ PipelineParked
    /\ OverlapParked
    /\ ENABLE_TEAMS \in BOOLEAN
    /\ TEAMS_WEBHOOK_URL \in BOOLEAN
    /\ max_retries \in 0..MaxRetriesTried
    /\ retry_backoff_seconds \in 0..MaxBackoffTried
    /\ teams_pc = "idle" /\ attempt = 0 /\ answers = <<>> /\ sleeps = <<>>

\* the try block letting the exception of requests.post through
TeamsAttempt_uncaught(o) ==
    IF o = "200" THEN "return" ELSE IF o = "status" THEN "sleep" ELSE "raise"

\* the try block of one attempt whose requests.post met o: the function
\* returns, or goes on to the sleep, the exception being caught
TeamsAttempt(o) == IF o = "200" THEN "return" ELSE "sleep"

\* the argument of time.sleep after attempt k
TeamsBackoff(backoff, k) == backoff * k

\* send_to_teams up to the loop: the two early returns, and range(1, max_retries + 1)
TeamsCall ==
    /\ teams_pc = "idle"
    /\ IF ~ENABLE_TEAMS \/ ~TEAMS_WEBHOOK_URL THEN teams_pc' = "returned" /\ attempt' = attempt
       ELSE IF max_retries >= 1 THEN teams_pc' = "post" /\ attempt' = 1
       ELSE teams_pc' = "returned" /\ attempt' = attempt
    /\ UNCHANGED <<ENABLE_TEAMS, TEAMS_WEBHOOK_URL, max_retries, retry_backoff_seconds,
                   answers, sleeps, pipeline, overlap>>

\* one requests.post and the try block around it
TeamsPost ==
    /\ teams_pc = "post"
    /\ \E o \in TeamsAnswers :
         /\ answers' = Append(answers, o)
         /\ teams_pc' = (CASE TeamsAttempt(o) = "return" -> "returned"
                           [] TeamsAttempt(o) = "sleep" -> "sleep"
                           [] OTHER -> "raised")
    /\ UNCHANGED <<ENABLE_TEAMS, TEAMS_WEBHOOK_URL, max_retries, retry_backoff_seconds,
                   attempt, sleeps, pipeline, overlap>>

\* time.sleep(retry_backoff_seconds * attempt) and the next turn of the
\* loop, or its end and the return after "Giving up"
TeamsSleep ==
    /\ teams_pc = "sleep"
    /\ sleeps' = Append(sleeps, TeamsBackoff(retry_backoff_seconds, attempt))
    /\ IF attempt < max_retries THEN attempt' = attempt + 1 /\ teams_pc' = "post"
       ELSE attempt' = attempt /\ teams_pc' = "returned"
    /\ UNCHANGED <<ENABLE_TEAMS, TEAMS_WEBHOOK_URL, max_retries, retry_backoff_seconds,
                   answers, pipeline, overlap>>

TeamsNext == TeamsCall \/ TeamsPost \/ TeamsSleep

\* a call of send_to_teams runs on: requests.post has a timeout and
\* time.sleep ends
TeamsSpec == TeamsInit /\ [][TeamsNext]_vars /\ WF_vars(TeamsNext)

(***************************************************************************)
(* Two processes of notify_ncsc.py against one cache file: nothing in the  *)
(* code keeps a second process from starting while the first one runs      *)
(* (dedupe.py takes no lock).  Every step that reads or writes the file is *)
(* one action; mark_sent is two, its load_cache() and its save_cache().    *)
(***************************************************************************)
\* the number of times the clock goes on while the processes run
MaxTicks == 1

\* the rows the processes can find in the feed
OverlapInputs == {<<4>>, <<1>>, <<5, 1>>, <<6, 7>>}

\* the cache file and the clock as the two processes find them
OverlapInit ==
    /\ file \in InitFiles /\ file0 = file
    /\ feed = <<>> /\ now = StartTime /\ prog = "notify" /\ NO_DEDUPE = FALSE
    /\ pc = "idle"
    /\ high_risk = <<>> /\ rows_to_send = <<>> /\ used_ids = <<>> /\ message_text = Empty
    /\ posts = 0 /\ outcome = "none" /\ writes = 0 /\ exit = "none"
    /\ prev = NoPrev /\ runs = 0 /\ loads = 0
    /\ TeamsParked
    /\ OverlapParked

\* the variables of the pipeline that the two processes leave alone
single == <<feed, prog, NO_DEDUPE, pc, high_risk, rows_to_send, used_ids, message_text,
            posts, outcome, writes, exit, file0, prev, runs, loads>>

\* process r is at step and ends there, or goes on
Ends(r, how) == [proc[r] EXCEPT !.pc = "done", !.exit = how]

\* main() of process r up to the composition of the message: the severity
\* filter, filter_new_advisories with its load_cache(), build_urgent_message
OverlapFilter(r) ==
    /\ proc[r].pc = "idle"
    /\ \E input \in OverlapInputs :
         LET hr  == HighRiskOf[input]
             res == filter_new_advisories(file, hr)
         IN  proc' = [proc EXCEPT ![r] =
                 IF hr = <<>> THEN Ends(r, "no_high_risk")
                 ELSE IF res.raised THEN [Ends(r, "raised_filter") EXCEPT !.high_risk = hr]
                 ELSE IF res.new_rows = <<>>
                      THEN [Ends(r, "no_new") EXCEPT !.high_risk = hr,
                                                     !.used_ids = res.used_ids]
                 ELSE [proc[r] EXCEPT !.pc = "composed", !.exit = "running",
                                      !.high_risk = hr,
                                      !.rows_to_send = res.new_rows,
                                      !.used_ids = res.used_ids,
                                      !.message_text = MessageOf[prog][res.new_rows]]]
    /\ trace' = Append(trace, <<r, "filter">>)
    /\ UNCHANGED <<file, now, ticks, single, teams>>

\* main() of process r: the duplicate-message guard, with its load_cache()
OverlapGuard(r) ==
    /\ proc[r].pc = "composed"
    /\ LET res == is_same_message(file, proc[r].message_text)
       IN  proc' = [proc EXCEPT ![r] =
               IF res.raised THEN Ends(r, "raised_guard")
               ELSE IF res.same THEN Ends(r, "same_message")
               ELSE [proc[r] EXCEPT !.pc = "dispatch"]]
    /\ UNCHANGED <<file, now, trace, ticks, single, teams>>

\* main() of process r: send_to_telegram(message_text) and the branch on
\* its result
OverlapDispatch(r) ==
    /\ proc[r].pc = "dispatch"
    /\ \E o \in Outcomes :
         LET res == send_to_telegram(prog, o)
         IN  proc' = [proc EXCEPT ![r] =
                 IF res.raised THEN Ends(r, "raised_send")
                 ELSE IF CallsMarkSent(prog, NO_DEDUPE, res.ok)
                      THEN [proc[r] EXCEPT !.pc = "sent"]
                 ELSE IF res.ok THEN Ends(r, "delivered")
                 ELSE Ends(r, "failed")]
    /\ UNCHANGED <<file, now, trace, ticks, single, teams>>

\* mark_sent beginning with an empty cache
OverlapLoad_fresh(r) ==
    /\ proc[r].pc = "sent"
    /\ proc' = [proc EXCEPT ![r] =
           [proc[r] EXCEPT !.pc = "loaded", !.cache = FreshCache, !.ts = now]]
    /\ trace' = Append(trace, <<r, "load">>)
    /\ UNCHANGED <<file, now, ticks, single, teams>>

\* mark_sent of process r, its first two statements: cache = load_cache()
\* and ts = _now_ts(); what follows raises when the value loaded is no dict
OverlapLoad(r) ==
    /\ proc[r].pc = "sent"
    /\ proc' = [proc EXCEPT ![r] =
           IF load_cache(file).kind # "dict" THEN Ends(r, "raised_commit")
           ELSE [proc[r] EXCEPT !.pc = "loaded", !.cache = load_cache(file), !.ts = now]]
    /\ trace' = Append(trace, <<r, "load">>)
    /\ UNCHANGED <<file, now, ticks, single, teams>>

\* what mark_sent hands to save_cache: the cache it loaded, with the truthy
\* keys of used_ids stamped ts and the digest of the text
Marked(cache, ids, text, ts) ==
    CacheFile("dict", TRUE, Stamp(GetIds(cache), ids, ts), Sha256Hex(text))

\* mark_sent of process r, the rest of it: the loop over used_ids, the digest
\* and save_cache(cache), which takes the time again for its cutoff
OverlapSave(r) ==
    /\ proc[r].pc = "loaded"
    /\ file' = save_cache(Marked(proc[r].cache, proc[r].used_ids, proc[r].message_text,
                                 proc[r].ts), now)
    /\ proc' = [proc EXCEPT ![r] = [Ends(r, "committed") EXCEPT !.saved = now]]
    /\ trace' = Append(trace, <<r, "save">>)
    /\ UNCHANGED <<now, ticks, single, teams>>

\* time passes while a process runs
OverlapTick ==
    /\ ticks < MaxTicks
    /\ \E r \in Procs : proc[r].pc \notin {"idle", "done"}
    /\ \E d \in Intervals : now' = now + d
    /\ ticks' = ticks + 1
    /\ UNCHANGED <<file, proc, trace, single, teams>>

OverlapNext ==
    \/ \E r \in Procs : OverlapFilter(r)
    \/ \E r \in Procs : OverlapGuard(r)
    \/ \E r \in Procs : OverlapDispatch(r)
    \/ \E r \in Procs : OverlapLoad(r)
    \/ \E r \in Procs : OverlapSave(r)
    \/ OverlapTick

OverlapSpec == OverlapInit /\ [][OverlapNext]_vars

(***************************************************************************)
(* Properties                                                              *)
(***************************************************************************)
\* the dispatch of a run failed
Failures == {"unconfigured", "status", "exception"}

\* the run got as far as calling send_to_telegram
Dispatched == outcome # "none"

\* C1: with dedupe enabled, the run that follows a committed run over the
\* same feed snapshot never gets to the dispatch: it makes no call of
\* send_to_telegram and no POST.
C1_Idempotent ==
    (~NO_DEDUPE /\ prev.exit = "committed")
        => (pc \notin {"dispatch", "sent"} /\ ~Dispatched /\ posts = 0)

\* C2: when the dispatch of a run fails (no credentials, a non-200 answer, an
\* exception), the cache file stays as it was when the run started; and the
\* next run over the same feed snapshot finds the same rows new and gets to
\* the dispatch with them.
C2_AtLeastOnce ==
    /\ outcome \in Failures => file = file0
    /\ (prev.outcome \in Failures /\ pc \in {"composed", "dispatch", "sent", "done"})
           => /\ rows_to_send = prev.rows_to_send
              /\ pc = "done" => Dispatched

\* C2 happens: a run was offered, and delivered, the rows whose dispatch
\* failed in the run before
C2_Witness ==
    /\ prev.outcome \in Failures
    /\ pc = "done" /\ outcome = "200"
    /\ rows_to_send = prev.rows_to_send /\ rows_to_send # <<>>

\* C3: the cache file is written only by the commit of a run whose dispatch
\* returned success; nothing before the dispatch and no early exit writes it.
C3_CommitAfterDispatch ==
    [][(file' # file \/ writes' > writes) => (pc = "sent" /\ outcome = "200" /\ posts = 1)]_vars

\* C3 happens: a run has written the cache file
C3_Witness == pc = "done" /\ exit = "committed" /\ writes = 1 /\ file # file0

\* bullet i of the rows lies wholly within the text made of them
InMessage(p, rows, i, text) == LenOf[p][SubSeq(rows, 1, i)] <= StrLen(text)

\* the entries of the cache as the run found them
IdsBefore == GetIds(load_cache(file0))

\* C4: every key whose entry a commit creates or updates is the key of a row
\* whose bullet is in the text that was delivered in that run.
C4_OnlyDeliveredKeys ==
    (pc = "done" /\ exit = "committed")
        => \A k \in DOMAIN file.ids :
               (k \notin DOMAIN IdsBefore \/ file.ids[k] # IdsBefore[k])
                   => \E i \in 1..Len(rows_to_send) :
                          /\ Key(rows_to_send[i]) = k
                          /\ InMessage(prog, rows_to_send, i, message_text)

\* C5: right after a save of the cache no entry is older than now - 30 days.
C5_Retention ==
    (pc = "done" /\ writes > 0)
        => \A k \in DOMAIN file.ids : file.ids[k] >= now - CACHE_TTL_DAYS * Day

\* C5 happens: a save dropped an entry that the file held before
C5_Witness ==
    /\ pc = "done" /\ writes > 0
    /\ \E k \in DOMAIN IdsBefore :
           IdsBefore[k] < now - CACHE_TTL_DAYS * Day /\ k \notin DOMAIN file.ids

\* C6: with NO_DEDUPE set all high-risk rows are sent, the duplicate-message
\* guard is not consulted, and the cache file is left alone even when the
\* dispatch succeeds.
C6_Bypass ==
    NO_DEDUPE
        => /\ pc \in {"composed", "dispatch", "sent"} \/ (pc = "done" /\ Dispatched)
                  => rows_to_send = high_risk
           /\ exit \notin {"same_message", "raised_guard"}
           /\ file = file0 /\ writes = 0

\* C7: a composed text longer than 3900 characters is returned as exactly
\* 3900 characters ending in the ellipsis marker; a shorter one unchanged.
C7_MessageCap ==
    message_text # Empty
        => LET full == ComposedText(prog, rows_to_send)
           IN  IF StrLen(full) > MessageLimit
               THEN /\ StrLen(message_text) = MessageLimit
                    /\ LastChar(message_text) = <<"ELLIPSIS">>
               ELSE message_text = full

\* C8: a non-200 answer and an exception of the transport both come back to
\* main() as a failure value: the run takes its failure branch and returns.
C8_NeverPropagates ==
    (pc = "done" /\ outcome \in {"status", "exception"}) => exit = "failed"

\* C9: a failed attempt is followed by further attempts; the failure is
\* final only after more than one POST.
C9_Retries ==
    (Dispatched /\ outcome \in {"status", "exception"}) => posts > 1

\* the cache file as the run found it is absent, is not JSON, is JSON but
\* not an object, or is an object without advisory_ids
Malformed == file0.kind # "dict" \/ ~file0.has_ids

\* C10: whatever the malformed cache file, the run goes as with no cache
\* file: no cache operation raises, every high-risk row is new, no message
\* is a duplicate, and a commit writes what it writes into a fresh cache.
C10_NeverFatal ==
    Malformed
        => /\ exit \notin {"raised_filter", "raised_guard", "raised_commit"}
           /\ pc \in {"composed", "dispatch", "sent"} => rows_to_send = high_risk
           /\ exit # "same_message"
           /\ exit = "committed"
                  => file = mark_sent(FreshCache, used_ids, message_text, now).file

\* x is one of the rows of seq
InSeq(x, seq) == \E i \in 1..Len(seq) : seq[i] = x

\* filter_new_advisories has returned in this run
Filtered ==
    /\ ~NO_DEDUPE
    /\ \/ pc \in {"composed", "dispatch", "sent"}
       \/ pc = "done" /\ exit \notin {"no_input", "no_high_risk", "raised_filter"}

\* the row has no direct tracking identifier, no embedded vendor ID and
\* nothing in any of its six signature fields
Unidentified(r) ==
    /\ \A i \in 1..Len(DirectFields) : Strip(Catalog[r][DirectFields[i]]) = Empty
    /\ ~EmbeddedId[r]
    /\ \A i \in 1..Len(SignatureFields) : Strip(Catalog[r][SignatureFields[i]]) = Empty

\* C11: a row without a direct identifier, without an embedded vendor ID and
\* with six empty signature fields has no key: no key of it is among the
\* keys filter_new_advisories hands on, it is among the new rows of every
\* run, and its key never gets into the cache.
C11_NoKey ==
    Filtered
        => \A i \in 1..Len(high_risk) :
               Unidentified(high_risk[i])
                   => /\ Key(high_risk[i]) = None
                      /\ ~InSeq(Key(high_risk[i]), used_ids)
                      /\ InSeq(high_risk[i], rows_to_send)
                      /\ Key(high_risk[i]) \notin DOMAIN GetIds(load_cache(file))

\* the candidates of the row, by their place in the fixed order, whose
\* trimmed value is non-empty
Candidates(r) == {k \in 1..Len(DirectFields) : Strip(Catalog[r][DirectFields[k]]) # Empty}

\* C12: the key of a row with a tracking column whose trimmed value is
\* non-empty is the trimmed value of the first such column in the fixed
\* order; a whitespace-only column is skipped, and no key is the empty text.
C12_FirstCandidate ==
    Filtered
        => \A i \in 1..Len(high_risk) :
               /\ Key(high_risk[i]) # Empty
               /\ Candidates(high_risk[i]) # {}
                      => LET k == CHOOSE c \in Candidates(high_risk[i]) :
                                      \A m \in Candidates(high_risk[i]) : c <= m
                             key == Strip(Catalog[high_risk[i]][DirectFields[k]])
                         IN  Key(high_risk[i]) = key /\ InSeq(key, used_ids)

\* C13: filter_new_advisories returns, in the order of its input, exactly
\* the rows whose key is not among the entries of the cache together with
\* the rows without a key; and the cache file is as it was before the call.
C13_FilterNew ==
    Filtered
        => LET New == {i \in 1..Len(high_risk) :
                           \/ Falsy(Key(high_risk[i]))
                           \/ Key(high_risk[i]) \notin DOMAIN IdsBefore}
               Place(i) == Cardinality({k \in New : k <= i})
           IN  /\ Len(rows_to_send) = Cardinality(New)
               /\ \A i \in New : rows_to_send[Place(i)] = high_risk[i]
               /\ (pc # "done" \/ exit = "no_new") => file = file0 /\ writes = 0

\* C13 happens: of the high-risk rows of a run, one was dropped as seen and
\* another one, after it, was returned as new
C13_Witness ==
    /\ Filtered
    /\ Len(high_risk) = 2 /\ rows_to_send = <<high_risk[2]>>
    /\ Key(high_risk[1]) \in DOMAIN IdsBefore

\* last_message_hash as the run found it
HashBefore == load_cache(file0).hash

\* C14: with the bypass off, a run whose composed text has the digest stored
\* as last_message_hash ends at the guard: no call of send_to_telegram, no
\* POST, no write of the cache; and after a commit last_message_hash is the
\* digest of the text that run delivered.
C14_DuplicateGuard ==
    /\ (~NO_DEDUPE /\ pc \in {"dispatch", "sent", "done"} /\ message_text # Empty
            /\ HashBefore = Sha256Hex(message_text))
           => /\ pc = "done" /\ exit = "same_message"
              /\ ~Dispatched /\ posts = 0
              /\ writes = 0 /\ file = file0
    /\ exit = "committed"
           => outcome = "200" /\ file.hash = Sha256Hex(message_text)

\* C14 happens: a run ended at the guard, its text being the one that the
\* commit of the run before had stored the digest of
C14_Witness ==
    /\ ~NO_DEDUPE /\ prev.exit = "committed"
    /\ pc = "done" /\ exit = "same_message"
    /\ HashBefore = Sha256Hex(message_text)

\* the exit status of the process, sys.exit(main()): main() returns 0 on
\* every path, an uncaught exception ends the process with 1
ExitStatus == IF exit \in Raised THEN 1 ELSE 0

\* C15: a run that finds TELEGRAM_BOT_TOKEN or TELEGRAM_CHAT_ID missing
\* makes no POST, leaves the cache file as it was and ends with exit status 0.
C15_ConfigurationMissing ==
    outcome = "unconfigured"
        => /\ posts = 0
           /\ writes = 0 /\ file = file0
           /\ pc = "done" /\ exit = "failed" /\ ExitStatus = 0

\* C15 happens: a run with rows to send found no credentials
C15_Witness ==
    /\ pc = "done" /\ outcome = "unconfigured"
    /\ rows_to_send # <<>> /\ message_text # Empty

\* C16: a run hands at most one text to the transport: send_to_telegram is
\* called at most once, it makes at most one POST, and there is no POST
\* outside of that call.
C16_AtMostOne ==
    /\ posts <= 1
    /\ Dispatched => pc \in {"sent", "done"}
    /\ ~Dispatched => posts = 0

\* C16 happens: a run over several new rows delivered its one message
C16_Witness ==
    /\ pc = "done" /\ outcome = "200" /\ posts = 1
    /\ Len(rows_to_send) > 1

\* the row has nothing in its tracking columns and no embedded vendor ID
Anonymous(r) ==
    /\ \A i \in 1..Len(DirectFields) : Catalog[r][DirectFields[i]] = Empty
    /\ ~EmbeddedId[r]

\* the two rows have the same Title, Description, Vendor, Product, CVE, URL
SameFingerprint(a, b) ==
    \A f \in {"Title", "Description", "Vendor", "Product", "CVE", "URL"} :
        Catalog[a][f] = Catalog[b][f]

\* the two rows differ in their Description and in nothing else
OnlyDescriptionDiffers(a, b) ==
    /\ Catalog[a]["Description"] # Catalog[b]["Description"]
    /\ \A f \in Fields \ {"Description"} : Catalog[a][f] = Catalog[b][f]

\* the two rows are high-risk rows that filter_new_advisories was given,
\* without a direct identifier and without an embedded vendor ID
AnonymousPair(a, b) ==
    Filtered /\ InSeq(a, high_risk) /\ InSeq(b, high_risk) /\ Anonymous(a) /\ Anonymous(b)

\* both rows are returned as new by a filter_new_advisories that found
\* neither key in the cache
BothNew(a, b) ==
    (Key(a) \notin DOMAIN IdsBefore /\ Key(b) \notin DOMAIN IdsBefore)
        => InSeq(a, rows_to_send) /\ InSeq(b, rows_to_send)

\* C17 as claimed: rows without direct identifier and embedded vendor ID get
\* the same key when their six signature fields are the same, and distinct
\* keys, both new against a cache with neither, when they differ only in
\* their Description.
C17_Fingerprint_Original ==
    \A a, b \in {high_risk[i] : i \in 1..Len(high_risk)} :
        AnonymousPair(a, b)
            => /\ SameFingerprint(a, b) => Key(a) = Key(b)
               /\ OnlyDescriptionDiffers(a, b) => Key(a) # Key(b) /\ BothNew(a, b)

\* C17, amended: rows without direct identifier and embedded vendor ID get
\* the same key when their six signature fields are the same, and distinct
\* keys, both new against a cache with neither, when they differ only in
\* their Description and the two descriptions still differ once trimmed.
C17_Fingerprint ==
    \A a, b \in {high_risk[i] : i \in 1..Len(high_risk)} :
        AnonymousPair(a, b)
            => /\ SameFingerprint(a, b) => Key(a) = Key(b)
               /\ (OnlyDescriptionDiffers(a, b)
                       /\ Strip(Catalog[a]["Description"]) # Strip(Catalog[b]["Description"]))
                      => Key(a) # Key(b) /\ BothNew(a, b)

\* C17 happens: a run found new two rows that differ only in their
\* Description, next to a third row with the six fields of the first
C17_Witness ==
    /\ \E a, b, c \in {high_risk[i] : i \in 1..Len(high_risk)} :
           /\ AnonymousPair(a, b) /\ AnonymousPair(a, c)
           /\ OnlyDescriptionDiffers(a, b) /\ Key(a) # Key(b)
           /\ a # c /\ SameFingerprint(a, c) /\ Key(a) = Key(c)
           /\ InSeq(a, rows_to_send) /\ InSeq(b, rows_to_send)

\* C18 as claimed: a run (with the bypass off) reads the cache file exactly
\* once, at its start, and writes it at most once, at its end; there is no
\* second load before the commit.
C18_SingleLoad_Original ==
    /\ loads <= 1
    /\ (~NO_DEDUPE /\ pc \in {"composed", "dispatch", "sent"}) => loads = 1
    /\ writes <= 1
    /\ writes = 1 => pc = "done" /\ exit = "committed"

\* C18, amended: a run writes the cache file at most once, at its end, in
\* the commit; it reads the file once in each cache operation it gets to
\* (filter_new_advisories, is_same_message, mark_sent), so up to three
\* times, the last time in the commit right before the write; with the
\* bypass on the commit's load is the only one.
C18_LoadsAndWrites ==
    /\ loads <= 3
    /\ writes <= 1
    /\ writes = 1 => pc = "done" /\ exit = "committed"
    /\ pc = "composed" => loads = (IF NO_DEDUPE THEN 0 ELSE 1)
    /\ pc \in {"dispatch", "sent"} => loads = (IF NO_DEDUPE THEN 0 ELSE 2)
    /\ exit \in {"committed", "raised_commit"} => loads = (IF NO_DEDUPE THEN 1 ELSE 3)

\* C18 happens: a run that filtered, passed the guard and committed
C18_Witness ==
    /\ ~NO_DEDUPE
    /\ pc = "done" /\ exit = "committed"
    /\ loads = 3 /\ writes = 1

\* the rows whose bullets make up the composed message of this run
Bullets == IF message_text = Empty THEN {} ELSE {rows_to_send[i] : i \in 1..Len(rows_to_send)}

\* C19 as claimed: in a bullet, a description of more than 300 characters
\* takes at most 300 characters, the marker included, and ends in the
\* marker; a description of at most 300 characters is there unchanged.
C19_DescriptionCap_Original ==
    \A r \in Bullets :
        LET desc == Catalog[r]["Description"]
            part == DescOf(Catalog[r])
        IN  IF StrLen(desc) > DescLimit
            THEN StrLen(part) <= DescLimit /\ LastChar(part) = <<"ELLIPSIS">>
            ELSE desc # Empty => part = desc

\* C19, amended: in a bullet, a description of more than 300 characters
\* takes at most 301 characters: a prefix of the description of at most 300
\* characters, followed by the marker; a non-empty description of at most
\* 300 characters is there unchanged.
C19_DescriptionCap ==
    \A r \in Bullets :
        LET desc == Catalog[r]["Description"]
            part == DescOf(Catalog[r])
        IN  IF StrLen(desc) > DescLimit
            THEN /\ StrLen(part) <= DescLimit + 1
                 /\ LastChar(part) = <<"ELLIPSIS">>
                 /\ Take(part, StrLen(part) - 1) = Take(desc, StrLen(part) - 1)
            ELSE desc # Empty => part = desc

\* C19 happens: a message was composed with a bullet whose description was
\* cut, giving 301 characters, and a bullet whose description has just 300
C19_Witness ==
    /\ \E r \in Bullets : /\ StrLen(Catalog[r]["Description"]) > DescLimit
                          /\ StrLen(DescOf(Catalog[r])) = DescLimit + 1
    /\ \E f \in Inputs : \E i \in 1..Len(f) :
           /\ StrLen(Catalog[f[i]]["Description"]) = DescLimit
           /\ DescOf(Catalog[f[i]]) = Catalog[f[i]]["Description"]

\* what holds at every point of a call of send_to_teams with the switch on
\* and a webhook URL set
TeamsRetrySafe ==
    (ENABLE_TEAMS /\ TEAMS_WEBHOOK_URL)
        => /\ teams_pc # "raised"
           /\ Len(answers) <= max_retries
           /\ \A k \in 1..Len(answers) :
                  answers[k] = "200"
                      => k = Len(answers) /\ teams_pc = "returned" /\ Len(sleeps) = k - 1
           /\ Len(sleeps) <= Len(answers)
           /\ \A k \in 1..Len(sleeps) :
                  answers[k] # "200" /\ sleeps[k] = retry_backoff_seconds * k
           /\ teams_pc = "post" => Len(sleeps) = Len(answers)
           /\ (teams_pc = "returned" /\ \A k \in 1..Len(answers) : answers[k] # "200")
                  => Len(answers) = max_retries /\ Len(sleeps) = max_retries

\* C20: a call of send_to_teams with the switch on and a webhook URL set
\* makes at most max_retries POSTs, makes no POST and no sleep after a POST
\* answered with 200, sleeps retry_backoff_seconds * k after the k-th failed
\* attempt, the last one included, never raises, whether the attempts fail
\* by status or by exception, and always returns.
C20_TeamsRetry == []TeamsRetrySafe /\ (teams_pc = "idle" ~> teams_pc = "returned")

\* C20 happens: a call with the default arguments gave up after three
\* failed attempts, by status and by exception, and three sleeps
C20_Witness ==
    /\ ENABLE_TEAMS /\ TEAMS_WEBHOOK_URL
    /\ max_retries = DefaultMaxRetries /\ retry_backoff_seconds = DefaultBackoff
    /\ teams_pc = "returned"
    /\ answers = <<"status", "exception", "status">>
    /\ sleeps = <<2, 4, 6>>

\* the keys of the high-risk rows of this run that are neither None nor empty
HighRiskKeys == {Key(high_risk[i]) : i \in 1..Len(high_risk)} \ {Empty, None}

\* C21: after a commit with the bypass off, the entries that carry the time
\* of the commit are exactly the non-empty keys of all high-risk rows of the
\* run: of the rows that were new and of the rows the cache held already,
\* whether or not their bullets are within the cap of the message.
C21_StampsAllHighRisk ==
    (~NO_DEDUPE /\ pc = "done" /\ exit = "committed")
        => {k \in DOMAIN file.ids : file.ids[k] = now} = HighRiskKeys

\* C21 happens: a commit gave the time of the commit to the entry of a row
\* that the cache held already and that was not in the message
C21_Witness ==
    /\ ~NO_DEDUPE /\ pc = "done" /\ exit = "committed"
    /\ \E i \in 1..Len(high_risk) :
           /\ Key(high_risk[i]) \in DOMAIN IdsBefore
           /\ IdsBefore[Key(high_risk[i])] < now
           /\ ~InSeq(high_risk[i], rows_to_send)
           /\ file.ids[Key(high_risk[i])] = now

\* the cache as the run found it holds an entry for the key that is older
\* than the retention window
Expired(k) ==
    k \in DOMAIN IdsBefore /\ IdsBefore[k] < now - CACHE_TTL_DAYS * Day

\* the entries of the cache file as a load_cache() would return them
Entries(f) == DOMAIN GetIds(load_cache(f))

\* a row whose entry is older than the retention window is not new
SeenWhateverAge ==
    Filtered
        => \A i \in 1..Len(high_risk) :
               Expired(Key(high_risk[i])) => ~InSeq(high_risk[i], rows_to_send)

\* C22: the retention window is applied when the cache is saved, never when
\* it is read: a row whose key has an entry in the file is not new, however
\* old the entry, and an entry leaves the file only by the save of a commit.
C22_ExpiryOnSave ==
    /\ []SeenWhateverAge
    /\ [][(\E k \in Entries(file) : k \notin Entries(file'))
              => (pc = "sent" /\ exit' = "committed")]_vars

\* C22 happens: a run found nothing new, the entries of all its high-risk
\* rows being older than the retention window
C22_Witness ==
    /\ ~NO_DEDUPE /\ pc = "done" /\ exit = "no_new"
    /\ high_risk # <<>>
    /\ \A i \in 1..Len(high_risk) : Expired(Key(high_risk[i]))

\* the committed runs over this feed snapshot, the present run included
CommitsOnFeed == prev.commits + (IF pc = "done" /\ exit = "committed" THEN 1 ELSE 0)

\* C23: with the bypass off, a row without a usable key is among the new
\* rows of every run; a run whose new rows are those of the committed run
\* before it ends at the guard without a dispatch; and over an unchanged
\* feed there is at most one notification after the first committed one:
\* no run gets to the dispatch once two runs have committed.
C23_KeylessSuppressed ==
    ~NO_DEDUPE
        => /\ Filtered => \A i \in 1..Len(high_risk) :
                              Falsy(Key(high_risk[i])) => InSeq(high_risk[i], rows_to_send)
           /\ (prev.exit = "committed" /\ Filtered /\ rows_to_send = prev.rows_to_send)
                  => /\ pc \notin {"dispatch", "sent"} /\ ~Dispatched /\ posts = 0
                     /\ pc = "done" => exit = "same_message"
           /\ CommitsOnFeed <= 2
           /\ prev.commits = 2 => pc \notin {"dispatch", "sent"} /\ ~Dispatched /\ posts = 0

\* C23 happens: over an unchanged feed with a keyless row the first run and
\* the second run notified, and the third run, offered the keyless row
\* again, ended at the guard
C23_Witness ==
    /\ ~NO_DEDUPE /\ prev.commits = 2 /\ prev.exit = "committed"
    /\ pc = "done" /\ exit = "same_message"
    /\ rows_to_send # <<>>
    /\ \A i \in 1..Len(rows_to_send) : Falsy(Key(rows_to_send[i]))

\* the place of the row in the sequence that holds it
Pos(x, seq) == CHOOSE i \in 1..Len(seq) : seq[i] = x

\* the number of times the key is listed in the sequence of keys
Listed(k, keys) == Cardinality({i \in 1..Len(keys) : keys[i] = k})

\* the pairs of places of high-risk rows of this run that resolve to one
\* usable key for which the cache, as the run found it, has no entry
SameKeyPairs ==
    {p \in (1..Len(high_risk)) \X (1..Len(high_risk)) :
        /\ p[1] < p[2]
        /\ Key(high_risk[p[1]]) = Key(high_risk[p[2]])
        /\ ~Falsy(Key(high_risk[p[1]]))
        /\ Key(high_risk[p[1]]) \notin DOMAIN IdsBefore}

\* the message of this run begins with the text composed of the first i new
\* rows: the bullet of row i is in the message, whole and in its place
HasBullet(i) ==
    LET upTo == SubSeq(rows_to_send, 1, i)
    IN  Take(message_text, LenOf[prog][upTo]) = TextOf[prog][upTo]

\* C24 as claimed: two rows of one run with the same key, absent from the
\* cache, are both returned as new, both have their bullet in the message,
\* the key is listed in used_ids for each of them, and a commit leaves one
\* entry for the key.
C24_InBatch_Original ==
    Filtered
        => \A p \in SameKeyPairs :
               LET a == high_risk[p[1]]
                   b == high_risk[p[2]]
               IN  /\ InSeq(a, rows_to_send) /\ InSeq(b, rows_to_send)
                   /\ HasBullet(Pos(a, rows_to_send))
                   /\ HasBullet(Pos(b, rows_to_send))
                   /\ Listed(Key(a), used_ids) >= 2
                   /\ (pc = "done" /\ exit = "committed") => file.ids[Key(a)] = now

\* C24, amended: two rows of one run with the same key, absent from the
\* cache, are both returned as new, in the order of the input; each has its
\* bullet in the message when the text composed of the new rows up to and
\* including it is within the cap of the message, and a bullet beyond the
\* cap is not in the message whole; the key is listed in used_ids once for
\* every high-risk row that resolves to it, and a commit leaves one entry
\* for the key, with the time of the commit.
C24_InBatch ==
    Filtered
        => \A p \in SameKeyPairs :
               LET a  == high_risk[p[1]]
                   b  == high_risk[p[2]]
                   ia == Pos(a, rows_to_send)
                   ib == Pos(b, rows_to_send)
                   fits(i) == LenOf[prog][SubSeq(rows_to_send, 1, i)] <= MessageLimit
               IN  /\ InSeq(a, rows_to_send) /\ InSeq(b, rows_to_send)
                   /\ ia < ib
                   /\ \A i \in {ia, ib} : fits(i) <=> HasBullet(i)
                   /\ Listed(Key(a), used_ids)
                          = Cardinality({i \in 1..Len(high_risk) :
                                             Key(high_risk[i]) = Key(a)})
                   /\ (pc = "done" /\ exit = "committed")
                          => /\ Key(a) \in DOMAIN file.ids
                             /\ file.ids[Key(a)] = now

\* C24 happens: a run committed a message with the bullets of two rows that
\* resolve to the same key, listed for both, and the file has the key
C24_Witness ==
    /\ pc = "done" /\ exit = "committed"
    /\ \E p \in SameKeyPairs :
           /\ HasBullet(Pos(high_risk[p[1]], rows_to_send))
           /\ HasBullet(Pos(high_risk[p[2]], rows_to_send))
           /\ Listed(Key(high_risk[p[1]]), used_ids) >= 2
           /\ file.ids[Key(high_risk[p[1]])] = now

\* C24 happens with the cap: of two new rows with the same key the second
\* has no bullet in the message of the run that committed the key
C24_Witness_Cut ==
    /\ pc = "done" /\ exit = "committed"
    /\ \E p \in SameKeyPairs :
           /\ InSeq(high_risk[p[2]], rows_to_send)
           /\ ~HasBullet(Pos(high_risk[p[2]], rows_to_send))

\* the place of the event in the trace, 0 when it did not happen
At(r, what) ==
    IF \E i \in 1..Len(trace) : trace[i] = <<r, what>>
    THEN CHOOSE i \in 1..Len(trace) : trace[i] = <<r, what>>
    ELSE 0

\* both processes have committed: each returned from its mark_sent
BothCommitted == \A r \in Procs : proc[r].pc = "done" /\ proc[r].exit = "committed"

\* the two runs overlap: both filtered before either wrote the file
Overlapped ==
    \A r \in Procs : \A q \in Procs :
        At(r, "filter") > 0 /\ (At(q, "save") > 0 => At(r, "filter") < At(q, "save"))

\* the load_cache() inside the mark_sent of one process fell between the
\* load and the save of the mark_sent of the other
Interleaved ==
    \E r \in Procs : \E q \in Procs \ {r} :
        /\ At(r, "load") > 0 /\ At(q, "load") > 0 /\ At(r, "save") > 0
        /\ At(r, "load") < At(q, "load") /\ At(q, "load") < At(r, "save")

\* the truthy keys process r handed to its mark_sent
Committed(r) ==
    {proc[r].used_ids[i] : i \in 1..Len(proc[r].used_ids)} \ {Empty, None}

\* the cutoff of the save_cache that wrote the file last
LastCutoff ==
    LET last == CHOOSE r \in Procs : \A q \in Procs : At(q, "save") <= At(r, "save")
    IN  proc[last].saved - CACHE_TTL_DAYS * Day

\* the keys that a process committed with a time within the retention
\* window of the last save
Retained == {k \in UNION {Committed(r) : r \in Procs} :
                \E r \in Procs : k \in Committed(r) /\ proc[r].ts >= LastCutoff}

\* C25: when both processes have committed and their mark_sent calls ran
\* one after the other, the file has every key either of them committed
\* that is within the retention window, with the time the later of its
\* writers gave it; a key that is missing tells that the load of one
\* mark_sent fell between the load and the save of the other.
C25_SequentialCommits ==
    BothCommitted
        => /\ ~Interleaved
                => \A k \in Retained :
                       /\ k \in DOMAIN file.ids
                       /\ \E r \in Procs : k \in Committed(r) /\ file.ids[k] = proc[r].ts
                       /\ \A r \in Procs : k \in Committed(r) => proc[r].ts <= file.ids[k]
           /\ (\E k \in Retained : k \notin DOMAIN file.ids) => Interleaved

\* C25 happens: two runs overlapped, each committed a key the other did not
\* have, their mark_sent calls ran one after the other, and the file has
\* both keys
C25_Witness ==
    /\ BothCommitted /\ Overlapped /\ ~Interleaved
    /\ \E k \in Committed("A") \ Committed("B") : k \in Retained /\ k \in DOMAIN file.ids
    /\ \E k \in Committed("B") \ Committed("A") : k \in Retained /\ k \in DOMAIN file.ids

\* C25 happens the other way: the mark_sent calls were interleaved and a
\* key committed within the retention window is not in the file
C25_Witness_Lost ==
    /\ BothCommitted /\ Overlapped /\ Interleaved
    /\ \E k \in Retained : k \notin DOMAIN file.ids

\* C25 happens with the retention window: the mark_sent calls ran one after
\* the other and a key the first committed is too old for the second save
C25_Witness_Expired ==
    /\ BothCommitted /\ Overlapped /\ ~Interleaved
    /\ \E r \in Procs : \E k \in Committed(r) : k \notin Retained /\ k \notin DOMAIN file.ids

====
